---- MODULE Spec2Model ----
(***************************************************************************)
(* SurveyPointsTable (src/src/components/PointsTable.tsx): the row         *)
(* flattener, the view state (row selection, global filter, column         *)
(* visibility, sorting, page) held by the component and by the table       *)
(* instance of useReactTable, and the two bulk actions (delete selected,   *)
(* toggle disable selected) with their collaborators onDelete and          *)
(* updateDatapoint.                                                        *)
(*                                                                         *)
(* Strings are sequences of one-character strings, so that substring       *)
(* search, lower-casing, number and date formatting and parseInt are       *)
(* computed. A number with decimals (the Mbps values, rounded to two) is   *)
(* held as its count of hundredths. Row positions are 0-based as in the    *)
(* source; Row(fd, i) reads fd[i].                                         *)
(***************************************************************************)
EXTENDS Integers, Sequences, FiniteSets, TLC

VARIABLES
  data,              \* props.data: SurveyPoint[]
  apMapping,         \* props.apMapping: ApMapping[]
  host,              \* the locale and time zone of the page's host
  flattenedData,     \* useMemo(() => data.map(...), [data, apMapping])
  filteredRows,      \* the table instance's filtered row model (memoised on
                     \* the data and the global filter): positions, in order
  rowSelection,      \* useState({}): the keys of the rowSelection object
  globalFilter,      \* useState("")
  columnVisibility,  \* useState<VisibilityState>({...})
  sorting,           \* the table instance's sorting state: <<[id, desc]>>
  pageIndex,         \* the table instance's pagination.pageIndex
  dialogOpen,        \* AlertDialogModal: the confirmation dialog is showing
  invocation         \* the callback that ran last and the collaborator calls
                     \* it made, until the owner of the records absorbs them

vars == <<data, apMapping, host, flattenedData, filteredRows, rowSelection, globalFilter, columnVisibility,
          sorting, pageIndex, dialogOpen, invocation>>

(***************************************************************************)
(* Bounds of the model.                                                    *)
(***************************************************************************)
\* Number of survey points the table is mounted with.
MaxRows == 3
\* Rows per page. The source sets no pageSize; the table's default is 10.
\* The model scales it down so that a second page exists with MaxRows rows.
PageSize == 2
\* Longest list of sort columns a run builds with shift-clicks.
MaxSortCols == 2
\* Longest record list and longest mapping table the owner hands over in the
\* specification of the props (SpecProps).
MaxPropRows == 2
MaxMapping == 2

(***************************************************************************)
(* Strings.                                                                *)
(***************************************************************************)
Digits == <<"0", "1", "2", "3", "4", "5", "6", "7", "8", "9">>
UpperCase == <<"A", "B", "C", "D", "E", "F", "G", "H", "I", "J", "K", "L", "M",
               "N", "O", "P", "Q", "R", "S", "T", "U", "V", "W", "X", "Y", "Z">>
LowerCase == <<"a", "b", "c", "d", "e", "f", "g", "h", "i", "j", "k", "l", "m",
               "n", "o", "p", "q", "r", "s", "t", "u", "v", "w", "x", "y", "z">>
\* The characters the model's strings use, in code-unit order.
CharOrder ==
  <<" ", "(", ")", ",", "-", ".", "/">> \o Digits \o <<":">> \o UpperCase \o LowerCase

IndexOf(seq, c) == CHOOSE i \in 1..Len(seq) : seq[i] = c

CharCodes == [c \in {CharOrder[i] : i \in 1..Len(CharOrder)} |-> IndexOf(CharOrder, c)]

CharCode(c) == CharCodes[c]

\* String.prototype.toLowerCase, per character.
LowerOf ==
  [c \in {CharOrder[i] : i \in 1..Len(CharOrder)} |->
     IF \E i \in 1..Len(UpperCase) : UpperCase[i] = c
       THEN LowerCase[IndexOf(UpperCase, c)]
       ELSE c]

ToLowerChar(c) == LowerOf[c]

ToLowerCase(s) == [i \in 1..Len(s) |-> ToLowerChar(s[i])]

\* String.prototype.includes
Includes(s, sub) ==
  \E i \in 0..(Len(s) - Len(sub)) : \A j \in 1..Len(sub) : s[i + j] = sub[j]

RECURSIVE NatToString(_)
NatToString(n) ==
  IF n < 10 THEN <<Digits[n + 1]>>
  ELSE NatToString(n \div 10) \o <<Digits[(n % 10) + 1]>>

\* Number.prototype.toString / String(n) for an integer.
NumberToString(n) == IF n < 0 THEN <<"-">> \o NatToString(0 - n) ELSE NatToString(n)

\* Number.prototype.toString for a non-negative number of at most two
\* decimals, given as its count of hundredths: 9450 is "94.5", 5 is "0.05".
HundredthsToString(h) ==
  LET whole == NatToString(h \div 100)
      frac == h % 100
  IN  IF frac = 0 THEN whole
      ELSE IF frac % 10 = 0 THEN whole \o <<".", Digits[(frac \div 10) + 1]>>
      ELSE whole \o <<".", Digits[(frac \div 10) + 1], Digits[(frac % 10) + 1]>>

\* The value of a decimal digit.
DigitValues == [c \in {Digits[i] : i \in 1..Len(Digits)} |-> IndexOf(Digits, c) - 1]

IsDigit(c) == c \in DOMAIN DigitValues

RECURSIVE ParseDigits(_, _)
ParseDigits(s, acc) ==
  IF s = <<>> \/ ~IsDigit(Head(s)) THEN acc
  ELSE ParseDigits(Tail(s), acc * 10 + DigitValues[Head(s)])

NaN == 0 - 1

\* parseInt(s) for the keys of rowSelection (no sign, no blanks): the leading
\* digits' value, NaN when there is none.
ParseInt(s) == IF s = <<>> \/ ~IsDigit(Head(s)) THEN NaN ELSE ParseDigits(s, 0)

\* a < b for strings, as JavaScript compares them (by code unit).
RECURSIVE StringLess(_, _)
StringLess(a, b) ==
  IF b = <<>> THEN FALSE
  ELSE IF a = <<>> THEN TRUE
  ELSE IF Head(a) # Head(b) THEN CharCode(Head(a)) < CharCode(Head(b))
  ELSE StringLess(Tail(a), Tail(b))

(***************************************************************************)
(* Unit and label converters.                                              *)
(***************************************************************************)
\* The largest b, negative or not, with 2^b * d <= n (n, d > 0).
RECURSIVE FloorLog2(_, _)
FloorLog2(n, d) ==
  IF n >= 2 * d THEN FloorLog2(n, 2 * d) + 1
  ELSE IF n < d THEN FloorLog2(2 * n, d) - 1
  ELSE 0

\* 2^s modulo m.
RECURSIVE Pow2Mod(_, _)
Pow2Mod(s, m) == IF s = 0 THEN 1 % m ELSE (2 * Pow2Mod(s - 1, m)) % m

\* bitsPerSecond = 10000k + 5000 is an exact half of a hundredth, and the
\* source computes in doubles: the quotient (2k + 1) / 200 is rounded to 53
\* bits, and its product by 100 is rounded again. The product falls below
\* k + 0.5 when the quotient was rounded down by more than 64/200 of its last
\* place (rem is what the rounding dropped, out of 200) and the doubles just
\* below k + 0.5 are 64 of those last places apart.
HalfRoundsDown(k) ==
  LET n == 2 * k + 1
      b == FloorLog2(n, 200)
      a == FloorLog2(n, 2)
      rem == ((n % 200) * Pow2Mod(52 - b, 200)) % 200
  IN  rem > 64 /\ rem < 100 /\ (a = b + 6 \/ k = 0)

\* convertToMbps: Math.round((bitsPerSecond / 1000000) * 100) / 100 for a
\* non-negative whole bitsPerSecond, as a count of hundredths. Math.round
\* takes a half upwards.
ConvertToMbps(bitsPerSecond) ==
  IF bitsPerSecond % 10000 = 5000 /\ HalfRoundsDown(bitsPerSecond \div 10000)
    THEN bitsPerSecond \div 10000
    ELSE (bitsPerSecond + 5000) \div 10000

\* rssiToPercentage: a pure function from dBm into 0..100. The model takes
\* the linear scale between -100 dBm and -40 dBm, rounded to a whole number.
RssiToPercentage(rssi) ==
  IF rssi <= 0 - 100 THEN 0
  ELSE IF rssi >= 0 - 40 THEN 100
  ELSE ((rssi + 100) * 10 + 3) \div 6

\* The time value of new Date(point.timestamp), as the model holds it: the
\* day since 1970-01-01 (UTC) and the second of that day (milliseconds are
\* not shown by toLocaleString), or NaN when the Date constructor reads no
\* date from the timestamp (absent, or not a date).
TimeValue(day, second) == [isNaN |-> FALSE, day |-> day, second |-> second]
NaNTime == [isNaN |-> TRUE, day |-> 0, second |-> 0]

\* The proleptic Gregorian date of a day since 1970-01-01.
CivilFromDays(days) ==
  LET z == days + 719468
      era == z \div 146097
      doe == z - era * 146097
      yoe == (doe - (doe \div 1460) + (doe \div 36524) - (doe \div 146096)) \div 365
      doy == doe - (365 * yoe + (yoe \div 4) - (yoe \div 100))
      mp == (5 * doy + 2) \div 153
      month == IF mp < 10 THEN mp + 3 ELSE mp - 9
  IN  [year |-> yoe + era * 400 + (IF month <= 2 THEN 1 ELSE 0),
       month |-> month,
       day |-> doy - ((153 * mp + 2) \div 5) + 1]

InvalidDate == <<"I", "n", "v", "a", "l", "i", "d", " ", "D", "a", "t", "e">>

TwoDigits(n) == <<Digits[(n \div 10) + 1], Digits[(n % 10) + 1]>>

\* The host of the page: its locale and the offset of its time zone from
\* UTC, in minutes, at the times shown.
Host(locale, offset) == [locale |-> locale, offset |-> offset]

\* new Date(point.timestamp).toLocaleString() on a host: "Invalid Date" for
\* NaN; else the local date and time, "M/D/YYYY, h:mm:ss AM" in the en-US
\* locale and "D.M.YYYY, HH:mm:ss" in the de-DE locale. A year before 1 is
\* shown by its count before the common era (year 0 as 1).
ToLocaleString(time, h) ==
  IF time.isNaN THEN InvalidDate
  ELSE LET local == time.second + h.offset * 60
           civil == CivilFromDays(time.day + (local \div 86400))
           second == local % 86400
           hours == second \div 3600
           hour12 == IF hours % 12 = 0 THEN 12 ELSE hours % 12
           year == IF civil.year <= 0 THEN 1 - civil.year ELSE civil.year
           minSec == <<":">> \o TwoDigits((second \div 60) % 60)
                       \o <<":">> \o TwoDigits(second % 60)
       IN  IF h.locale = "de-DE"
             THEN NatToString(civil.day) \o <<".">> \o NatToString(civil.month)
                    \o <<".">> \o NatToString(year) \o <<",", " ">>
                    \o TwoDigits(hours) \o minSec
             ELSE NatToString(civil.month) \o <<"/">> \o NatToString(civil.day)
                    \o <<"/">> \o NatToString(year) \o <<",", " ">>
                    \o NatToString(hour12) \o minSec
                    \o (IF hours < 12 THEN <<" ", "A", "M">> ELSE <<" ", "P", "M">>)

(***************************************************************************)
(* Row flattener.                                                          *)
(***************************************************************************)
\* apMapping.find((ap) => ap.macAddress === bssid): the position of the first
\* entry with that address, 0 when there is none.
FindAp(mapping, bssid) ==
  IF \E i \in 1..Len(mapping) : mapping[i].macAddress = bssid
    THEN CHOOSE i \in 1..Len(mapping) :
           /\ mapping[i].macAddress = bssid
           /\ \A j \in 1..(i - 1) : mapping[j].macAddress # bssid
    ELSE 0

\* A variant that skips matching entries without a name.
MappedNameFirstNamed(mapping, bssid) ==
  IF \E i \in 1..Len(mapping) :
       mapping[i].macAddress = bssid /\ mapping[i].apName # <<>>
    THEN mapping[CHOOSE i \in 1..Len(mapping) :
                   /\ mapping[i].macAddress = bssid /\ mapping[i].apName # <<>>
                   /\ \A j \in 1..(i - 1) :
                        ~(mapping[j].macAddress = bssid /\ mapping[j].apName # <<>>)].apName
    ELSE <<>>

\* The name found for the address ("?.apName"); <<>> stands for both an
\* undefined and an empty name: the source tests them alike ("if (mappedName)").
MappedName(mapping, bssid) ==
  IF FindAp(mapping, bssid) = 0 THEN <<>> ELSE mapping[FindAp(mapping, bssid)].apName

BssidLabel(mapping, bssid) ==
  IF Len(mapping) > 0 /\ MappedName(mapping, bssid) # <<>>
    THEN MappedName(mapping, bssid) \o <<" ", "(">> \o bssid \o <<")">>
    ELSE bssid

FormatFrequency(mhz) == NumberToString(mhz) \o <<" ", "M", "h", "z">>

\* { ...point, ...point.wifiData, bssid, tcpDownloadMbps, ..., timestamp }
FlattenPoint(point, mapping, h) ==
  [id              |-> point.id,
   x               |-> point.x,
   y               |-> point.y,
   isDisabled      |-> point.isDisabled,
   wifiData        |-> point.wifiData,
   iperfResults    |-> point.iperfResults,
   ssid            |-> point.wifiData.ssid,
   rssi            |-> point.wifiData.rssi,
   channel         |-> point.wifiData.channel,
   security        |-> point.wifiData.security,
   txRate          |-> point.wifiData.txRate,
   phyMode         |-> point.wifiData.phyMode,
   channelWidth    |-> point.wifiData.channelWidth,
   bssid           |-> BssidLabel(mapping, point.wifiData.bssid),
   tcpDownloadMbps |-> ConvertToMbps(point.iperfResults.tcpDownload.bitsPerSecond),
   tcpUploadMbps   |-> ConvertToMbps(point.iperfResults.tcpUpload.bitsPerSecond),
   udpDownloadMbps |-> ConvertToMbps(point.iperfResults.udpDownload.bitsPerSecond),
   udpUploadMbps   |-> ConvertToMbps(point.iperfResults.udpUpload.bitsPerSecond),
   signalQuality   |-> RssiToPercentage(point.wifiData.rssi),
   frequency       |-> FormatFrequency(point.wifiData.frequency),
   timestamp       |-> ToLocaleString(point.timestamp, h)]

\* data.map((point) => ...)
RECURSIVE Flatten(_, _, _)
Flatten(points, mapping, h) ==
  IF points = <<>> THEN <<>>
  ELSE <<FlattenPoint(Head(points), mapping, h)>> \o Flatten(Tail(points), mapping, h)

\* flattenedData[i], i counted from 0.
Row(fd, i) == fd[i + 1]

(***************************************************************************)
(* Columns.                                                                *)
(***************************************************************************)
\* The ids of the column definitions, in their order.
Columns ==
  <<"select", "id", "disable", "rssi", "signalQuality", "bssid", "frequency",
    "channel", "tcpDownloadMbps", "tcpUploadMbps", "udpDownloadMbps",
    "udpUploadMbps", "timestamp", "ssid", "security", "txRate", "phyMode",
    "channelWidth", "x", "y">>
ColumnIds == {Columns[i] : i \in 1..Len(Columns)}

\* A column has an accessor when its definition has an accessorKey.
HasAccessor(col) == col # "select"

\* The accessorKey: the column's id but for the disable column.
AccessorKey(col) == IF col = "disable" THEN "isDisabled" ELSE col

\* A variant in which every column can hide.
GetCanHideAll(col) == TRUE

\* enableHiding: false on the select column only.
GetCanHide(col) == col # "select"

\* enableSorting: false on the select column; a column sorts when it has an
\* accessor and sorting is not disabled on it.
EnableSorting(col) == col # "select"
GetCanSort(col) == EnableSorting(col) /\ HasAccessor(col)

\* The columns holding Mbps values (hundredths in the model).
MbpsColumns ==
  {"tcpDownloadMbps", "tcpUploadMbps", "udpDownloadMbps", "udpUploadMbps"}

\* typeof of the value a column holds in a row (FlattenedSurveyPoint); the
\* select column has no accessor and so no value.
TypeOfColumn ==
  [col \in ColumnIds |->
     CASE col = "select" -> "undefined"
       [] col = "disable" -> "boolean"
       [] col \in {"rssi", "signalQuality", "channel", "txRate", "channelWidth",
                   "x", "y"} \cup MbpsColumns -> "number"
       [] OTHER -> "string"]

TypeOf(col) == TypeOfColumn[col]

\* row.getValue(columnId): the row's field under the accessorKey.
GetValue(row, col) == row[AccessorKey(col)]

\* value.toString()
ValueToString(row, col) ==
  CASE col \in MbpsColumns -> HundredthsToString(GetValue(row, col))
    [] TypeOf(col) = "number" -> NumberToString(GetValue(row, col))
    [] TypeOf(col) = "boolean" ->
         IF GetValue(row, col) THEN <<"t", "r", "u", "e">>
         ELSE <<"f", "a", "l", "s", "e">>
    [] OTHER -> GetValue(row, col)

\* The initial columnVisibility state: udpDownloadMbps and udpUploadMbps
\* have no key in it.
DefaultColumnVisibility ==
  LET shown == {"select", "id", "signalQuality", "bssid", "frequency",
                "tcpDownloadMbps", "tcpUploadMbps", "timestamp", "disable"}
      hidden == {"rssi", "ssid", "security", "txRate", "phyMode",
                 "channelWidth", "channel", "x", "y"}
  IN  [c \in shown \cup hidden |-> c \in shown]

\* column.getIsVisible: columnVisibility[id] ?? true
IsVisibleIn(visibility, col) ==
  IF col \in DOMAIN visibility THEN visibility[col] ELSE TRUE

GetIsVisible(col) == IsVisibleIn(columnVisibility, col)

\* column.toggleVisibility(value): { ...old, [id]: value }
SetVisibility(visibility, col, value) ==
  [c \in (DOMAIN visibility) \cup {col} |->
     IF c = col THEN value ELSE visibility[c]]

(***************************************************************************)
(* Global filter (getFilteredRowModel with the default filter function).   *)
(***************************************************************************)
\* A variant that searches the values of every type.
GetColumnCanGlobalFilterAnyType(fd, col) == Len(fd) > 0

\* The table's default getColumnCanGlobalFilter: the value the column holds
\* in the first row of the data is a string or a number.
GetColumnCanGlobalFilter(fd, col) ==
  Len(fd) > 0 /\ TypeOf(col) \in {"string", "number"}

GetCanGlobalFilter(fd, col) == HasAccessor(col) /\ GetColumnCanGlobalFilter(fd, col)

GloballyFilterableColumns(fd) == {c \in ColumnIds : GetCanGlobalFilter(fd, c)}

\* filterFns.includesString: both sides lower-cased, substring search.
IncludesString(row, col, filterValue) ==
  Includes(ToLowerCase(ValueToString(row, col)), ToLowerCase(filterValue))

RowPassesGlobalFilter(row, cols, filterValue) ==
  \E c \in cols : IncludesString(row, c, filterValue)

\* The positions 0..Len(fd)-1 in input order.
CoreRows(fd) == [i \in 1..Len(fd) |-> i - 1]

\* The rows kept by the filter, in input order. An empty filter, no row, or
\* no filterable column leaves the row model as it is.
FilteredRows(fd, filterValue) ==
  IF Len(fd) = 0 \/ filterValue = <<>> \/ GloballyFilterableColumns(fd) = {}
    THEN CoreRows(fd)
    ELSE LET cols == GloballyFilterableColumns(fd)
             Pass(i) == RowPassesGlobalFilter(Row(fd, i), cols, filterValue)
         IN  SelectSeq(CoreRows(fd), Pass)

(***************************************************************************)
(* Sorting (getSortedRowModel, column.toggleSorting).                      *)
(***************************************************************************)
\* sortingFns.basic: a === b ? 0 : a > b ? 1 : -1
CompareBasic(a, b, type) ==
  IF a = b THEN 0
  ELSE IF type = "number" THEN (IF a > b THEN 1 ELSE 0 - 1)
  ELSE IF type = "boolean" THEN (IF a THEN 1 ELSE 0 - 1)
  ELSE (IF StringLess(b, a) THEN 1 ELSE 0 - 1)

\* The comparator of the sorted row model: the first sort column on which the
\* rows differ decides, reversed when that column sorts descending; rows
\* equal on every sort column keep their input order.
RECURSIVE CompareRows(_, _, _, _)
CompareRows(fd, i, j, sort) ==
  IF sort = <<>> THEN i - j
  ELSE LET col == Head(sort).id
           c == CompareBasic(GetValue(Row(fd, i), col), GetValue(Row(fd, j), col),
                             TypeOf(col))
       IN  IF c # 0 THEN (IF Head(sort).desc THEN 0 - c ELSE c)
           ELSE CompareRows(fd, i, j, Tail(sort))

RECURSIVE InsertRow(_, _, _, _)
InsertRow(fd, sort, sorted, i) ==
  IF sorted = <<>> THEN <<i>>
  ELSE IF CompareRows(fd, i, Head(sorted), sort) < 0 THEN <<i>> \o sorted
  ELSE <<Head(sorted)>> \o InsertRow(fd, sort, Tail(sorted), i)

RECURSIVE SortRows(_, _, _)
SortRows(fd, sort, rows) ==
  IF rows = <<>> THEN <<>>
  ELSE InsertRow(fd, sort, SortRows(fd, sort, SubSeq(rows, 1, Len(rows) - 1)),
                 rows[Len(rows)])

\* The sorted row model over the filtered rows; no sort column leaves them
\* in their order.
SortedRows(fd, rows, sort) ==
  IF Len(rows) = 0 \/ sort = <<>> THEN rows ELSE SortRows(fd, sort, rows)

\* A variant that starts every column ascending.
GetAutoSortDirAscFirst(rows, col) == "asc"

\* column.getAutoSortDir: "asc" when the column's value in the first filtered
\* row is a string, "desc" otherwise (a number, a boolean, or no row).
GetAutoSortDir(rows, col) ==
  IF Len(rows) > 0 /\ TypeOf(col) = "string" THEN "asc" ELSE "desc"

\* column.getFirstSortDir: no sortDescFirst option is set.
GetFirstSortDir(rows, col) == GetAutoSortDir(rows, col)

\* column.getIsSorted: "asc", "desc" or "none" (false in the source).
GetIsSorted(sort, col) ==
  IF \E k \in 1..Len(sort) : sort[k].id = col
    THEN LET k == CHOOSE k \in 1..Len(sort) : sort[k].id = col
         IN  IF sort[k].desc THEN "desc" ELSE "asc"
    ELSE "none"

\* column.getNextSortingOrder, sorting removal enabled (the default).
GetNextSortingOrder(rows, sort, col) ==
  LET first == GetFirstSortDir(rows, col)
      isSorted == GetIsSorted(sort, col)
  IN  IF isSorted = "none" THEN first
      ELSE IF isSorted # first THEN "none"
      ELSE IF isSorted = "desc" THEN "asc" ELSE "desc"

\* column.getCanMultiSort: no enableMultiSort option is set.
GetCanMultiSort(col) == HasAccessor(col)

SortAction(sort, col, multi) ==
  LET existing == \E k \in 1..Len(sort) : sort[k].id = col
  IN  IF Len(sort) > 0 /\ GetCanMultiSort(col) /\ multi
        THEN (IF existing THEN "toggle" ELSE "add")
      ELSE IF Len(sort) > 0 /\ sort[Len(sort)].id # col THEN "replace"
      ELSE IF existing THEN "toggle"
      ELSE "replace"

\* The updater column.toggleSorting hands to setSorting.
ToggleSorting(rows, sort, col, multi) ==
  LET next == GetNextSortingOrder(rows, sort, col)
      nextDesc == (next = "desc")
      action0 == SortAction(sort, col, multi)
      action == IF action0 = "toggle" /\ next = "none" THEN "remove" ELSE action0
      IsOther(e) == e.id # col
  IN  CASE action = "add" -> Append(sort, [id |-> col, desc |-> nextDesc])
        [] action = "toggle" ->
             [k \in 1..Len(sort) |->
                IF sort[k].id = col THEN [id |-> col, desc |-> nextDesc] ELSE sort[k]]
        [] action = "remove" -> SelectSeq(sort, IsOther)
        [] OTHER -> <<[id |-> col, desc |-> nextDesc]>>

(***************************************************************************)
(* Pagination (getPaginationRowModel).                                     *)
(***************************************************************************)
\* table.getPageCount: Math.ceil(rows / pageSize)
GetPageCount(nRows) == (nRows + PageSize - 1) \div PageSize

GetCanPreviousPage(index) == index > 0

GetCanNextPage(index, nRows) ==
  IF GetPageCount(nRows) = 0 THEN FALSE ELSE index < GetPageCount(nRows) - 1

Min(a, b) == IF a < b THEN a ELSE b

\* rows.slice(pageStart, pageEnd)
PageRows(rows, index) ==
  SubSeq(rows, index * PageSize + 1, Min((index + 1) * PageSize, Len(rows)))

\* What the table renders in the current state.
sortedRows == SortedRows(flattenedData, filteredRows, sorting)
pageRows == PageRows(sortedRows, pageIndex)
Range(seq) == {seq[i] : i \in 1..Len(seq)}

(***************************************************************************)
(* Row selection (the table's row-selection feature). A row's id is its    *)
(* position in flattenedData, as a string.                                 *)
(***************************************************************************)
RowId(i) == NumberToString(i)

GetIsSelected(sel, i) == RowId(i) \in sel

\* row.toggleSelected(value)
ToggleSelected(sel, i, value) ==
  IF GetIsSelected(sel, i) = value THEN sel
  ELSE IF value THEN sel \cup {RowId(i)} ELSE sel \ {RowId(i)}

\* table.getIsAllPageRowsSelected
GetIsAllPageRowsSelected(sel, rows) ==
  Len(rows) > 0 /\ \A k \in 1..Len(rows) : GetIsSelected(sel, rows[k])

\* table.toggleAllPageRowsSelected(value): the rows of the current page.
ToggleAllPageRowsSelected(sel, rows, value) ==
  IF value THEN sel \cup {RowId(i) : i \in Range(rows)}
  ELSE sel \ {RowId(i) : i \in Range(rows)}

\* table.toggleAllRowsSelected(value): the rows the filter keeps.
ToggleAllRowsSelected(sel, rows, value) ==
  IF value THEN sel \cup {RowId(i) : i \in Range(rows)}
  ELSE sel \ {RowId(i) : i \in Range(rows)}

\* Object.keys(rowSelection): integer-like keys come in ascending order.
RECURSIVE ObjectKeys(_)
ObjectKeys(sel) ==
  IF sel = {} THEN <<>>
  ELSE LET k == CHOOSE k \in sel : \A o \in sel : ParseInt(k) <= ParseInt(o)
       IN  <<k>> \o ObjectKeys(sel \ {k})

(***************************************************************************)
(* Bulk actions.                                                           *)
(***************************************************************************)
NoInvocation == [by |-> "none", threw |-> FALSE, deleted |-> <<>>, updated |-> <<>>]

\* flattenedData[parseInt(index)] is undefined for some key, so reading its
\* id raises a TypeError and the callback ends there.
ResolveThrows(sel, fd) ==
  \E k \in sel : ParseInt(k) = NaN \/ ParseInt(k) >= Len(fd)

\* Object.keys(rowSelection).map((index) => flattenedData[parseInt(index)].id)
SelectedIds(sel, fd) ==
  [k \in 1..Len(ObjectKeys(sel)) |-> Row(fd, ParseInt(ObjectKeys(sel)[k])).id]

\* flattenedData.find((point) => point.id === id)?.isDisabled
FindIsDisabled(fd, id) ==
  IF \E i \in 1..Len(fd) : fd[i].id = id
    THEN fd[CHOOSE i \in 1..Len(fd) :
              fd[i].id = id /\ \A j \in 1..(i - 1) : fd[j].id # id].isDisabled
    ELSE FALSE

\* A variant that asks for some selected row to be disabled.
AnyHidden(ids, fd) == \E k \in 1..Len(ids) : FindIsDisabled(fd, ids[k])

AllHidden(ids, fd) == \A k \in 1..Len(ids) : FindIsDisabled(fd, ids[k])

\* handleDelete: one onDelete call with the ids of the selected positions.
HandleDelete(sel, fd) ==
  IF ResolveThrows(sel, fd)
    THEN [by |-> "handleDelete", threw |-> TRUE, deleted |-> <<>>, updated |-> <<>>]
    ELSE [by |-> "handleDelete", threw |-> FALSE,
          deleted |-> <<SelectedIds(sel, fd)>>, updated |-> <<>>]

\* toggleDisableSelected: one updateDatapoint call per selected id.
ToggleDisableSelected(sel, fd) ==
  IF ResolveThrows(sel, fd)
    THEN [by |-> "toggleDisableSelected", threw |-> TRUE,
          deleted |-> <<>>, updated |-> <<>>]
    ELSE LET ids == SelectedIds(sel, fd)
         IN  [by |-> "toggleDisableSelected", threw |-> FALSE, deleted |-> <<>>,
              updated |-> [k \in 1..Len(ids) |->
                             [id |-> ids[k], isDisabled |-> ~AllHidden(ids, fd)]]]

\* The Switch of a row: updateDatapoint(id, {isDisabled: value}).
SwitchDisable(fd, i) ==
  [by |-> "switch", threw |-> FALSE, deleted |-> <<>>,
   updated |-> <<[id |-> Row(fd, i).id, isDisabled |-> ~Row(fd, i).isDisabled]>>]

\* A variant that never disables the Delete Selected button.
DeleteNeverDisabled(sel) == FALSE

\* disabled={Object.keys(rowSelection).length === 0} on the three buttons.
DeselectAllDisabled(sel) == Len(ObjectKeys(sel)) = 0
DeleteDisabled(sel) == Len(ObjectKeys(sel)) = 0
ToggleDisableDisabled(sel) == Len(ObjectKeys(sel)) = 0

\* "{Object.keys(rowSelection).length} of {flattenedData.length} row(s) selected"
SelectedCountLabel(sel, fd) == <<Len(ObjectKeys(sel)), Len(fd)>>

(***************************************************************************)
(* The owner of the records (the parent component).                        *)
(***************************************************************************)
DeletedIds(inv) == UNION {Range(inv.deleted[c]) : c \in 1..Len(inv.deleted)}

\* onDelete(ids): the records with these ids leave the list.
ApplyDelete(points, inv) ==
  LET Keep(p) == p.id \notin DeletedIds(inv)
  IN  SelectSeq(points, Keep)

\* updateDatapoint(id, patch): the record with this id takes the patch.
ApplyUpdate(points, u) ==
  [i \in 1..Len(points) |->
     IF points[i].id = u.id
       THEN [points[i] EXCEPT !.isDisabled = u.isDisabled]
       ELSE points[i]]

RECURSIVE ApplyUpdates(_, _)
ApplyUpdates(points, updates) ==
  IF updates = <<>> THEN points
  ELSE ApplyUpdates(ApplyUpdate(points, Head(updates)), Tail(updates))

OwnerResult(points, inv) == ApplyUpdates(ApplyDelete(points, inv), inv.updated)

(***************************************************************************)
(* Inputs.                                                                 *)
(***************************************************************************)
WifiData(ssid, bssid, rssi, channel, security, txRate, phyMode, channelWidth, frequency) ==
  [ssid |-> ssid, bssid |-> bssid, rssi |-> rssi, channel |-> channel,
   security |-> security, txRate |-> txRate, phyMode |-> phyMode,
   channelWidth |-> channelWidth, frequency |-> frequency]

IperfResults(tcpDown, tcpUp, udpDown, udpUp) ==
  [tcpDownload |-> [bitsPerSecond |-> tcpDown],
   tcpUpload   |-> [bitsPerSecond |-> tcpUp],
   udpDownload |-> [bitsPerSecond |-> udpDown],
   udpUpload   |-> [bitsPerSecond |-> udpUp]]

Point(id, x, y, timestamp, wifiData, iperfResults) ==
  [id |-> id, x |-> x, y |-> y, timestamp |-> timestamp, isDisabled |-> FALSE,
   wifiData |-> wifiData, iperfResults |-> iperfResults]

\* 2024-01-01T10:00:00Z; the TCP download rate is an exact half of a hundredth
\* (1.005 Mbps) that the doubles of the source round down.
PointA ==
  Point(<<"a">>, 10, 20, TimeValue(19723, 36000),
        WifiData(<<"n", "e", "t">>, <<"A", "A">>, 0 - 40, 6, <<"W", "P", "A", "2">>, 144,
                 <<"a", "x">>, 20, 2437),
        IperfResults(1005000, 94500000, 1234567, 0))

\* 2024-02-29T15:30:05Z
PointB ==
  Point(<<"b">>, 30, 5, TimeValue(19782, 55805),
        WifiData(<<"l", "a", "n">>, <<"B", "B">>, 0 - 70, 36, <<"W", "P", "A", "3">>, 866,
                 <<"a", "c">>, 80, 5180),
        IperfResults(250000000, 94500000, 6000, 4999))

\* 2023-12-31T00:00:00Z
PointC ==
  Point(<<"c">>, 7, 7, TimeValue(19722, 0),
        WifiData(<<"n", "e", "t">>, <<"A", "A">>, 0 - 55, 6, <<"W", "P", "A", "2">>, 144,
                 <<"a", "x">>, 20, 2437),
        IperfResults(12345678, 50000000, 0, 1005001))

\* A record without a timestamp.
PointD ==
  Point(<<"d">>, 0, 40, NaNTime,
        WifiData(<<"l", "a", "n">>, <<"C", "C">>, 0 - 70, 36, <<"W", "P", "A", "3">>, 866,
                 <<"a", "c">>, 80, 5180),
        IperfResults(0, 0, 0, 0))

SamplePoints == <<PointA, PointB, PointC, PointD>>

Ap(mac, name) == [macAddress |-> mac, apName |-> name]

\* The host of the runs that do not vary it: en-US in UTC.
SampleHost == Host("en-US", 0)

SampleMapping == <<Ap(<<"B", "B">>, <<"D", "e", "n">>)>>

\* Texts typed into the search box: none, and one that keeps the rows of the
\* access point AA.
FilterInputs == {<<>>, <<"a", "a">>}

\* Headers clicked, and columns toggled in the Show Columns menu.
HeaderInputs == {"select", "id", "rssi"}
MenuInputs == {"select", "rssi"}

(***************************************************************************)
(* State machine.                                                          *)
(***************************************************************************)
InitView ==
  /\ rowSelection = {}
  /\ globalFilter = <<>>
  /\ columnVisibility = DefaultColumnVisibility
  /\ sorting = <<>>
  /\ pageIndex = 0
  /\ dialogOpen = FALSE
  /\ invocation = NoInvocation

Init ==
  /\ data = SubSeq(SamplePoints, 1, MaxRows)
  /\ apMapping = SampleMapping
  /\ host = SampleHost
  /\ flattenedData = Flatten(SubSeq(SamplePoints, 1, MaxRows), SampleMapping, SampleHost)
  /\ filteredRows =
       FilteredRows(Flatten(SubSeq(SamplePoints, 1, MaxRows), SampleMapping, SampleHost),
                    <<>>)
  /\ InitView

\* The user can act on the table: no dialog is in front of it and the last
\* callback's calls have been absorbed.
Idle == invocation = NoInvocation /\ ~dialogOpen

\* The checkbox of a rendered row: row.toggleSelected(!!value).
ClickRowCheckbox(i) ==
  /\ Idle
  /\ i \in Range(pageRows)
  /\ rowSelection' = ToggleSelected(rowSelection, i, ~GetIsSelected(rowSelection, i))
  /\ UNCHANGED <<host, data, apMapping, flattenedData, filteredRows,
                 globalFilter, columnVisibility, sorting,
                 pageIndex, dialogOpen, invocation>>

\* The checkbox of the select column's header.
ClickHeaderCheckbox ==
  /\ Idle
  /\ rowSelection' = ToggleAllPageRowsSelected(rowSelection, pageRows,
                        ~GetIsAllPageRowsSelected(rowSelection, pageRows))
  /\ UNCHANGED <<host, data, apMapping, flattenedData, filteredRows,
                 globalFilter, columnVisibility, sorting,
                 pageIndex, dialogOpen, invocation>>

ClickSelectAll ==
  /\ Idle
  /\ rowSelection' = ToggleAllRowsSelected(rowSelection, filteredRows, TRUE)
  /\ UNCHANGED <<host, data, apMapping, flattenedData, filteredRows,
                 globalFilter, columnVisibility, sorting,
                 pageIndex, dialogOpen, invocation>>

ClickDeselectAll ==
  /\ Idle
  /\ ~DeselectAllDisabled(rowSelection)
  /\ rowSelection' = ToggleAllRowsSelected(rowSelection, filteredRows, FALSE)
  /\ UNCHANGED <<host, data, apMapping, flattenedData, filteredRows,
                 globalFilter, columnVisibility, sorting,
                 pageIndex, dialogOpen, invocation>>

\* Typing in the search box: setGlobalFilter(event.target.value). A new
\* filtered row model sends the table back to its first page.
SetGlobalFilter(f) ==
  /\ Idle
  /\ f # globalFilter
  /\ globalFilter' = f
  /\ filteredRows' = FilteredRows(flattenedData, f)
  /\ pageIndex' = 0
  /\ UNCHANGED <<host, data, apMapping, flattenedData, rowSelection,
                 columnVisibility, sorting, dialogOpen, invocation>>

\* column.toggleVisibility(!!value) from the Show Columns menu, which lists
\* the columns that can hide.
ToggleVisibility(col) ==
  /\ Idle
  /\ GetCanHide(col)
  /\ columnVisibility' = SetVisibility(columnVisibility, col, ~GetIsVisible(col))
  /\ UNCHANGED <<host, data, apMapping, flattenedData, filteredRows,
                 rowSelection, globalFilter, sorting,
                 pageIndex, dialogOpen, invocation>>

\* A click on a rendered header (multi: with the shift key held). A column
\* that cannot sort ignores it; a new sorted row model sends the table back
\* to its first page.
ClickHeader(col, multi) ==
  /\ Idle
  /\ GetIsVisible(col)
  /\ LET next == IF GetCanSort(col)
                   THEN ToggleSorting(filteredRows, sorting, col, multi)
                   ELSE sorting
     IN  /\ Len(next) <= MaxSortCols
         /\ sorting' = next
         /\ pageIndex' = IF next = sorting THEN pageIndex ELSE 0
  /\ UNCHANGED <<host, data, apMapping, flattenedData, filteredRows,
                 rowSelection, globalFilter, columnVisibility,
                 dialogOpen, invocation>>

\* A variant of NextPage that drops the selection.
NextPageDroppingSelection ==
  /\ Idle
  /\ GetCanNextPage(pageIndex, Len(sortedRows))
  /\ pageIndex' = pageIndex + 1
  /\ rowSelection' = {}
  /\ UNCHANGED <<host, data, apMapping, flattenedData, filteredRows,
                 globalFilter, columnVisibility,
                 sorting, dialogOpen, invocation>>

NextPage ==
  /\ Idle
  /\ GetCanNextPage(pageIndex, Len(sortedRows))
  /\ pageIndex' = pageIndex + 1
  /\ UNCHANGED <<host, data, apMapping, flattenedData, filteredRows,
                 rowSelection, globalFilter, columnVisibility,
                 sorting, dialogOpen, invocation>>

PreviousPage ==
  /\ Idle
  /\ GetCanPreviousPage(pageIndex)
  /\ pageIndex' = pageIndex - 1
  /\ UNCHANGED <<host, data, apMapping, flattenedData, filteredRows,
                 rowSelection, globalFilter, columnVisibility,
                 sorting, dialogOpen, invocation>>

\* The Switch in the Disable column of a rendered row.
ClickSwitch(i) ==
  /\ Idle
  /\ GetIsVisible("disable")
  /\ i \in Range(pageRows)
  /\ invocation' = SwitchDisable(flattenedData, i)
  /\ UNCHANGED <<host, data, apMapping, flattenedData, filteredRows,
                 rowSelection, globalFilter, columnVisibility,
                 sorting, pageIndex, dialogOpen>>

\* The Toggle Disable Selected button.
ClickToggleDisableSelected ==
  /\ Idle
  /\ ~ToggleDisableDisabled(rowSelection)
  /\ invocation' = ToggleDisableSelected(rowSelection, flattenedData)
  /\ UNCHANGED <<host, data, apMapping, flattenedData, filteredRows,
                 rowSelection, globalFilter, columnVisibility,
                 sorting, pageIndex, dialogOpen>>

\* The Delete Selected button opens the confirmation dialog unless disabled.
OpenDeleteDialog ==
  /\ Idle
  /\ ~DeleteDisabled(rowSelection)
  /\ dialogOpen' = TRUE
  /\ UNCHANGED <<host, data, apMapping, flattenedData, filteredRows,
                 rowSelection, globalFilter, columnVisibility,
                 sorting, pageIndex, invocation>>

\* The dialog's confirm button: onConfirm={handleDelete}.
ConfirmDelete ==
  /\ dialogOpen
  /\ invocation = NoInvocation
  /\ dialogOpen' = FALSE
  /\ invocation' = HandleDelete(rowSelection, flattenedData)
  /\ UNCHANGED <<host, data, apMapping, flattenedData, filteredRows,
                 rowSelection, globalFilter, columnVisibility,
                 sorting, pageIndex>>

\* The dialog's cancel button: onCancel={() => {}}.
CancelDelete ==
  /\ dialogOpen
  /\ invocation = NoInvocation
  /\ dialogOpen' = FALSE
  /\ UNCHANGED <<host, data, apMapping, flattenedData, filteredRows,
                 rowSelection, globalFilter, columnVisibility,
                 sorting, pageIndex, invocation>>

\* The owner absorbs the calls of the last callback and renders the table
\* with the resulting list; a new list sends the table back to its first page.
OwnerApply ==
  /\ invocation # NoInvocation
  /\ data' = OwnerResult(data, invocation)
  /\ LET fd == Flatten(OwnerResult(data, invocation), apMapping, host)
     IN  /\ flattenedData' = fd
         /\ filteredRows' = FilteredRows(fd, globalFilter)
  /\ pageIndex' = IF invocation.deleted = <<>> /\ invocation.updated = <<>>
                    THEN pageIndex ELSE 0
  /\ invocation' = NoInvocation
  /\ UNCHANGED <<host, apMapping, rowSelection, globalFilter, columnVisibility,
                 sorting, dialogOpen>>

Next ==
  \/ \E i \in 0..(MaxRows - 1) : ClickRowCheckbox(i)
  \/ ClickHeaderCheckbox
  \/ ClickSelectAll
  \/ ClickDeselectAll
  \/ \E f \in FilterInputs : SetGlobalFilter(f)
  \/ \E c \in MenuInputs : ToggleVisibility(c)
  \/ \E c \in HeaderInputs, multi \in BOOLEAN : ClickHeader(c, multi)
  \/ NextPage
  \/ PreviousPage
  \/ \E i \in 0..(MaxRows - 1) : ClickSwitch(i)
  \/ ClickToggleDisableSelected
  \/ OpenDeleteDialog
  \/ ConfirmDelete
  \/ CancelDelete
  \/ OwnerApply

Spec == Init /\ [][Next]_vars

(***************************************************************************)
(* The view alone: a header of each kind of column, with and without the   *)
(* shift key, and a filter that keeps no row. No bulk action runs, so the  *)
(* records stay.                                                           *)
(***************************************************************************)
ViewFilterInputs == {<<>>, <<"a", "a">>, <<"z", "z">>}

\* The headers clicked: the select column, and a column of each kind of
\* value (string, boolean, number hidden at mount, number with decimals,
\* formatted date).
ViewHeaderInputs ==
  {"select", "id", "disable", "rssi", "tcpDownloadMbps", "timestamp"}

ViewNext ==
  \/ \E i \in 0..(MaxRows - 1) : ClickRowCheckbox(i)
  \/ \E f \in ViewFilterInputs : SetGlobalFilter(f)
  \/ \E c \in MenuInputs : ToggleVisibility(c)
  \/ \E c \in ViewHeaderInputs, multi \in BOOLEAN : ClickHeader(c, multi)
  \/ NextPage
  \/ PreviousPage

SpecView == Init /\ [][ViewNext]_vars

(***************************************************************************)
(* The props: the owner hands over record lists and mapping tables, and    *)
(* the user types filters. The flattener and the filter are functions of   *)
(* these.                                                                  *)
(***************************************************************************)
PropPoints ==
  {PointA, [PointB EXCEPT !.isDisabled = TRUE],
   [PointC EXCEPT !.wifiData.bssid = <<"C", "C">>, !.timestamp = NaNTime]}

PropEntries ==
  {Ap(<<"A", "A">>, <<"D", "e", "n">>), Ap(<<"A", "A">>, <<"H", "u", "b">>),
   Ap(<<"A", "A">>, <<>>)}

SeqsUpTo(S, n) == UNION {[1..k -> S] : k \in 0..n}

IsInjective(seq) == \A i, j \in 1..Len(seq) : seq[i] = seq[j] => i = j

\* Record lists: the ids of a list are distinct.
DataInputs == {d \in SeqsUpTo(PropPoints, MaxPropRows) : IsInjective(d)}

MappingInputs == SeqsUpTo(PropEntries, MaxMapping)

\* Hosts: en-US in UTC, and de-DE nine hours ahead of UTC.
HostInputs == {Host("en-US", 0), Host("de-DE", 540)}

PropFilterInputs ==
  {<<>>, <<"a", "l", "s">>, <<"d", "e", "n">>, <<"9", "4", ".", "5">>,
   <<",", " ", "1", "0", ":">>}

\* The owner renders the table with another record list or mapping table:
\* flattenedData is recomputed and the table goes back to its first page.
ReplaceData(d) ==
  /\ Idle
  /\ d # data
  /\ data' = d
  /\ LET fd == Flatten(d, apMapping, host)
     IN  /\ flattenedData' = fd
         /\ filteredRows' = FilteredRows(fd, globalFilter)
  /\ pageIndex' = 0
  /\ UNCHANGED <<host, apMapping, rowSelection, globalFilter, columnVisibility,
                 sorting, dialogOpen, invocation>>

ReplaceApMapping(m) ==
  /\ Idle
  /\ m # apMapping
  /\ apMapping' = m
  /\ LET fd == Flatten(data, m, host)
     IN  /\ flattenedData' = fd
         /\ filteredRows' = FilteredRows(fd, globalFilter)
  /\ pageIndex' = 0
  /\ UNCHANGED <<host, data, rowSelection, globalFilter, columnVisibility,
                 sorting, dialogOpen, invocation>>

PropsInit ==
  /\ data \in DataInputs
  /\ apMapping \in MappingInputs
  /\ host \in HostInputs
  /\ flattenedData = Flatten(data, apMapping, host)
  /\ filteredRows = FilteredRows(Flatten(data, apMapping, host), <<>>)
  /\ InitView

PropsNext ==
  \/ \E d \in DataInputs : ReplaceData(d)
  \/ \E m \in MappingInputs : ReplaceApMapping(m)
  \/ \E f \in PropFilterInputs : SetGlobalFilter(f)

SpecProps == PropsInit /\ [][PropsNext]_vars

(***************************************************************************)
(* Claims.                                                                 *)
(***************************************************************************)
\* The selected keys that are positions of the current flattenedData.
ValidKeys(sel, fd) == {k \in sel : ParseInt(k) # NaN /\ ParseInt(k) < Len(fd)}
SelectedRowIds(sel, fd) == {Row(fd, ParseInt(k)).id : k \in ValidKeys(sel, fd)}
UpdatedIds(inv) == {inv.updated[k].id : k \in 1..Len(inv.updated)}

\* A step in which toggleDisableSelected runs.
ToggleStep == invocation.by = "none" /\ invocation'.by = "toggleDisableSelected"
\* A step in which the dialog closes by its confirm button.
ConfirmStep == dialogOpen /\ ~dialogOpen' /\ invocation'.by = "handleDelete"
CancelStep == dialogOpen /\ ~dialogOpen' /\ invocation'.by # "handleDelete"

\* C1: whenever toggleDisableSelected runs on a non-empty selection, it calls
\* updateDatapoint exactly once for the id of every selected row and for no
\* other record, every call with isDisabled = NOT (all selected rows are
\* disabled).
C1_ToggleCallsOncePerSelected ==
  [][ToggleStep /\ rowSelection # {} =>
       LET fd == flattenedData
           ids == SelectedRowIds(rowSelection, fd)
           allCurrentlyDisabled ==
             \A k \in ValidKeys(rowSelection, fd) : Row(fd, ParseInt(k)).isDisabled
       IN  /\ UpdatedIds(invocation') = ids
           /\ Len(invocation'.updated) = Cardinality(ids)
           /\ \A k \in 1..Len(invocation'.updated) :
                invocation'.updated[k].isDisabled = ~allCurrentlyDisabled]_vars

\* The selection is exactly two rows of the list, the first with isDisabled
\* = x and the second with isDisabled = y.
TwoSelected(sel, fd, x, y) ==
  /\ Cardinality(sel) = 2
  /\ ValidKeys(sel, fd) = sel
  /\ \E a, b \in sel :
       /\ a # b
       /\ Row(fd, ParseInt(a)).isDisabled = x
       /\ Row(fd, ParseInt(b)).isDisabled = y

\* Both selected rows are asked to take isDisabled = value.
BothSetTo(sel, fd, inv, value) ==
  /\ UpdatedIds(inv) = SelectedRowIds(sel, fd)
  /\ \A k \in 1..Len(inv.updated) : inv.updated[k].isDisabled = value

\* C2 as stated: toggling the mixed selection {A(disabled), B(enabled)} sets
\* both to isDisabled = false, and toggling {A(enabled), B(enabled)} sets
\* both to isDisabled = true.
C2_MixedBecomesEnabled ==
  [][ToggleStep =>
       /\ TwoSelected(rowSelection, flattenedData, TRUE, FALSE) =>
            BothSetTo(rowSelection, flattenedData, invocation', FALSE)
       /\ TwoSelected(rowSelection, flattenedData, FALSE, FALSE) =>
            BothSetTo(rowSelection, flattenedData, invocation', TRUE)]_vars

\* C2 amended: toggling the mixed selection {A(disabled), B(enabled)} sets
\* both to isDisabled = true, as toggling {A(enabled), B(enabled)} does.
C2_MixedBecomesDisabled ==
  [][ToggleStep =>
       /\ TwoSelected(rowSelection, flattenedData, TRUE, FALSE) =>
            BothSetTo(rowSelection, flattenedData, invocation', TRUE)
       /\ TwoSelected(rowSelection, flattenedData, FALSE, FALSE) =>
            BothSetTo(rowSelection, flattenedData, invocation', TRUE)]_vars

\* toggleDisableSelected has just run on a selection of one disabled and one
\* enabled row, and asked both to become disabled.
C2_Witness ==
  /\ invocation.by = "toggleDisableSelected"
  /\ TwoSelected(rowSelection, flattenedData, TRUE, FALSE)
  /\ Len(invocation.updated) = 2
  /\ BothSetTo(rowSelection, flattenedData, invocation, TRUE)

\* C3: confirming the delete dialog calls onDelete exactly once, with exactly
\* the ids of the selected rows and none twice; cancelling calls nothing; and
\* onDelete is only ever called by a step that closes the open dialog.
C3_ConfirmDeletesSelectedOnce ==
  [][(ConfirmStep =>
        (/\ Len(invocation'.deleted) = 1
         /\ Range(invocation'.deleted[1]) = SelectedRowIds(rowSelection, flattenedData)
         /\ ValidKeys(rowSelection, flattenedData) = rowSelection
         /\ IsInjective(invocation'.deleted[1])))
     /\ (CancelStep => invocation' = NoInvocation)
     /\ ((invocation'.deleted # <<>> /\ invocation' # invocation) => dialogOpen)]_vars

\* C4: while the selection is empty both bulk buttons are disabled, the
\* dialog is closed and stays closed, and no step runs handleDelete or
\* toggleDisableSelected or raises an error.
C4_EmptySelectionNoBulkAction ==
  [][Len(ObjectKeys(rowSelection)) = 0 =>
       /\ DeleteDisabled(rowSelection) /\ ToggleDisableDisabled(rowSelection)
       /\ ~dialogOpen /\ ~dialogOpen'
       /\ invocation'.by \notin {"handleDelete", "toggleDisableSelected"}
       /\ invocation'.deleted = <<>>
       /\ ~invocation'.threw]_vars

\* The selection is empty again after a confirmed delete has removed
\* records: both buttons are disabled with rows still in the table.
C4_Witness ==
  /\ rowSelection = {}
  /\ Idle
  /\ Len(data) < MaxRows
  /\ Len(data) > 0

\* A step that changes the page while the records, the filter and the sort
\* stay: a click on Next or Previous.
PageStep ==
  /\ pageIndex' # pageIndex
  /\ data' = data /\ globalFilter' = globalFilter /\ sorting' = sorting

\* C5: a click on Next or Previous moves the page by one and leaves the
\* selection and the filter as they are; Next is available iff rows remain
\* after the current page of the filtered rows, Previous iff the page is not
\* the first.
C5_PageNavigationKeepsSelection ==
  /\ [](/\ GetCanNextPage(pageIndex, Len(sortedRows))
            = ((pageIndex + 1) * PageSize < Len(filteredRows))
        /\ GetCanPreviousPage(pageIndex) = (pageIndex >= 1))
  /\ [][PageStep =>
          /\ rowSelection' = rowSelection
          /\ globalFilter' = globalFilter
          /\ \/ pageIndex' = pageIndex + 1
                  /\ (pageIndex + 1) * PageSize < Len(filteredRows)
             \/ pageIndex' = pageIndex - 1 /\ pageIndex >= 1]_vars

\* The second page is showing and rows are selected.
C5_Witness == pageIndex = 1 /\ rowSelection # {} /\ Idle

\* The columns whose values are strings, and those whose values are numbers.
StringColumns ==
  {"id", "bssid", "frequency", "timestamp", "ssid", "security", "phyMode"}
NumberColumns ==
  {"rssi", "signalQuality", "channel", "tcpDownloadMbps", "tcpUploadMbps",
   "udpDownloadMbps", "udpUploadMbps", "txRate", "channelWidth", "x", "y"}
SortableColumns == StringColumns \cup NumberColumns \cup {"disable"}

\* C6 as stated, for the string and number columns of a table that shows
\* rows: an unsorted column becomes ascending, an ascending one descending
\* (or unsorted when another column takes over), a descending one unsorted.
C6_AscendingFirst ==
  [][\A c \in StringColumns \cup NumberColumns :
       LET a == GetIsSorted(sorting, c)
           b == GetIsSorted(sorting', c)
       IN  (Len(filteredRows) > 0 /\ a # b) =>
             /\ a = "none" => b = "asc"
             /\ a = "asc" => b \in {"desc", "none"}
             /\ a = "desc" => b = "none"]_vars

\* The first direction of a column: ascending when its value in the first
\* filtered row is a string, descending otherwise.
FirstDesc(c) == ~(c \in StringColumns /\ Len(filteredRows) > 0)

Click(sort, c) == ToggleSorting(filteredRows, sort, c, FALSE)

\* C6 amended: the select column never sorts; from at most one sort column a
\* click without the shift key leaves at most one; with at most one sort column before and
\* after, a click makes an unsorted column the sort column in its first
\* direction (ascending for a string column of a table that shows rows,
\* descending for a number or boolean column or when no row is shown),
\* reverses the sort column when it is in its first direction and removes it
\* otherwise; three clicks on an unsorted column pass through two sorted
\* states and leave the rows in filtered input order.
C6_FirstDirectionByType ==
  /\ [](/\ \A k \in 1..Len(sorting) : sorting[k].id \in SortableColumns
        /\ SortableColumns = ColumnIds \ {"select"}
        /\ ~GetCanSort("select")
        /\ \A c \in SortableColumns :
             LET once == Click(<<>>, c)
                 twice == Click(once, c)
             IN  /\ Len(sorting) <= 1 => Len(Click(sorting, c)) <= 1
                 /\ once = <<[id |-> c, desc |-> FirstDesc(c)]>>
                 /\ twice = <<[id |-> c, desc |-> ~FirstDesc(c)]>>
                 /\ Click(twice, c) = <<>>
        /\ SortedRows(flattenedData, filteredRows, <<>>) = filteredRows)
  /\ [][(sorting' # sorting /\ Len(sorting) <= 1 /\ Len(sorting') <= 1) =>
          IF sorting = <<>>
            THEN \E c \in SortableColumns :
                   /\ GetIsVisible(c)
                   /\ sorting' = <<[id |-> c, desc |-> FirstDesc(c)]>>
            ELSE LET c == sorting[1].id
                     d == sorting[1].desc
                 IN  \/ sorting' = <<>> /\ d # FirstDesc(c)
                     \/ sorting' = <<[id |-> c, desc |-> ~d]>> /\ d = FirstDesc(c)
                     \/ \E o \in SortableColumns \ {c} :
                          sorting' = <<[id |-> o, desc |-> FirstDesc(o)]>>]_vars

\* A number column has been clicked twice: it sorts ascending, after
\* descending, and the rows are in the ascending order of their values.
C6_Witness ==
  /\ sorting = <<[id |-> "tcpDownloadMbps", desc |-> FALSE]>>
  /\ Len(filteredRows) > 1
  /\ \A k \in 1..(Len(sortedRows) - 1) :
       Row(flattenedData, sortedRows[k]).tcpDownloadMbps
         < Row(flattenedData, sortedRows[k + 1]).tcpDownloadMbps

\* The label the claim gives the address: the name and address of the first
\* entry with that address, the address itself when there is none.
FirstMatchLabel(mapping, bssid) ==
  IF \E i \in 1..Len(mapping) : mapping[i].macAddress = bssid
    THEN LET i == CHOOSE i \in 1..Len(mapping) :
                    /\ mapping[i].macAddress = bssid
                    /\ \A j \in 1..(i - 1) : mapping[j].macAddress # bssid
         IN  mapping[i].apName \o <<" ", "(">> \o bssid \o <<")">>
    ELSE bssid

\* C7 as stated: every row's label is "<apName> (<address>)" of the first
\* entry with the record's address, also when that entry's name is empty,
\* and the address when no entry matches; one row per record in input order.
C7_FirstMatchAlwaysLabels ==
  /\ Len(flattenedData) = Len(data)
  /\ \A i \in 1..Len(data) :
       /\ flattenedData[i].id = data[i].id
       /\ flattenedData[i].bssid = FirstMatchLabel(apMapping, data[i].wifiData.bssid)

\* C7 amended: the label is "<apName> (<address>)" of the first entry with
\* the record's address when that entry's name is not empty, and the address
\* unchanged when the table is empty, no entry matches, or the first matching
\* entry has an empty name (a later entry with the address is not used); one
\* row per record in input order.
C7_FirstMatchLabelsWhenNamed ==
  /\ Len(flattenedData) = Len(data)
  /\ \A i \in 1..Len(data) :
       LET addr == data[i].wifiData.bssid
           label == flattenedData[i].bssid
           matches == {k \in 1..Len(apMapping) : apMapping[k].macAddress = addr}
       IN  /\ flattenedData[i].id = data[i].id
           /\ IF matches = {} THEN label = addr
              ELSE LET first == CHOOSE k \in matches : \A o \in matches : k <= o
                   IN  IF apMapping[first].apName = <<>> THEN label = addr
                       ELSE label = FirstMatchLabel(apMapping, addr)

\* A record whose address is first mapped without a name and then with one
\* has been flattened, and its label is the address.
C7_Witness ==
  \E i \in 1..Len(data) :
    /\ Len(apMapping) = 2
    /\ apMapping[1].macAddress = data[i].wifiData.bssid
    /\ apMapping[1].apName = <<>>
    /\ apMapping[2].macAddress = data[i].wifiData.bssid
    /\ apMapping[2].apName # <<>>
    /\ flattenedData[i].bssid = data[i].wifiData.bssid

ContainsFilter(text, filterValue) ==
  Includes(ToLowerCase(text), ToLowerCase(filterValue))

BooleanToString(b) == IF b THEN <<"t", "r", "u", "e">> ELSE <<"f", "a", "l", "s", "e">>

\* The rows of fd at the positions in rows.
RowsAt(fd, rows) == [k \in 1..Len(rows) |-> Row(fd, rows[k])]

\* The text of a row's value in a column, as the claim's reader writes it:
\* a string as it is, a whole number in decimal digits, an Mbps value with
\* its decimals, a boolean as "true" or "false".
DecimalColumns ==
  {"tcpDownloadMbps", "tcpUploadMbps", "udpDownloadMbps", "udpUploadMbps"}
TextOf(row, c) ==
  IF c \in StringColumns THEN row[c]
  ELSE IF c \in DecimalColumns THEN HundredthsToString(row[c])
  ELSE IF c \in NumberColumns THEN NumberToString(row[c])
  ELSE BooleanToString(row.isDisabled)

\* C8 as stated: a row is shown iff the filter is empty or one of its
\* values, the boolean among them, contains the filter text whatever the
\* case.
C8_AnyValueMatches ==
  \A i \in 0..(Len(flattenedData) - 1) :
    LET row == Row(flattenedData, i)
    IN  (i \in Range(filteredRows)) <=>
          \/ globalFilter = <<>>
          \/ \E c \in SortableColumns :
               ContainsFilter(TextOf(row, c), globalFilter)

\* C8 amended: a row is shown iff the filter is empty or one of its string
\* or number column values, hidden columns included, contains the filter
\* text whatever the case (the boolean isDisabled is not searched); the shown
\* rows keep their input order, and filtering the shown rows again keeps all
\* of them.
C8_StringOrNumberValueMatches ==
  /\ \A i \in 0..(Len(flattenedData) - 1) :
       LET row == Row(flattenedData, i)
       IN  (i \in Range(filteredRows)) <=>
             \/ globalFilter = <<>>
             \/ \E c \in SortableColumns \ {"disable"} :
                  ContainsFilter(TextOf(row, c), globalFilter)
  /\ \A k \in 1..(Len(filteredRows) - 1) : filteredRows[k] < filteredRows[k + 1]
  /\ Len(FilteredRows(RowsAt(flattenedData, filteredRows), globalFilter))
       = Len(filteredRows)

\* The filter "als" is set over a list with an enabled row: only the text
\* "false" of the row's boolean contains it, and no row is shown.
C8_Witness ==
  /\ globalFilter = <<"a", "l", "s">>
  /\ \E i \in 1..Len(flattenedData) : ~flattenedData[i].isDisabled
  /\ filteredRows = <<>>

\* A step that changes the visibility of a column.
VisibilityStep == columnVisibility' # columnVisibility

\* C9: the select column is always visible, and a change of column
\* visibility flips one column that can hide and leaves the records, the
\* shown rows and their order, the selection, the filter, the sort and the
\* page as they are.
C9_VisibilityOnlyChangesColumns ==
  /\ [](GetIsVisible("select") /\ ~GetCanHide("select"))
  /\ [][VisibilityStep =>
          /\ \E c \in ColumnIds \ {"select"} :
               \A o \in ColumnIds :
                 IsVisibleIn(columnVisibility', o)
                   = IF o = c THEN ~GetIsVisible(o) ELSE GetIsVisible(o)
          /\ SortedRows(flattenedData', filteredRows', sorting') = sortedRows
          /\ PageRows(SortedRows(flattenedData', filteredRows', sorting'),
                      pageIndex') = pageRows
          /\ UNCHANGED <<host, data, apMapping, flattenedData, filteredRows,
                 rowSelection, globalFilter, sorting,
                         pageIndex, dialogOpen, invocation>>]_vars

\* A column hidden at mount is shown while rows are selected, a filter is
\* set, a column sorts and the second page is up.
C9_Witness ==
  /\ GetIsVisible("rssi")
  /\ rowSelection # {}
  /\ sorting # <<>>
  /\ pageIndex = 1

\* C10: every key of the selection is a position of the current
\* flattenedData, so the bulk callbacks resolve every key and the selected
\* count is at most the row count.
C10_SelectionKeysValid ==
  /\ ValidKeys(rowSelection, flattenedData) = rowSelection
  /\ ~ResolveThrows(rowSelection, flattenedData)
  /\ SelectedCountLabel(rowSelection, flattenedData)[1]
       <= SelectedCountLabel(rowSelection, flattenedData)[2]

====
